---- MODULE Spec2Model ----
(***************************************************************************)
(* Model of the silver-layer assets of etl_pipeline/assets/silver.py:      *)
(*   silver_videoCategory_cleaned  (Category Normalizer)                   *)
(*   silver_linkVideos_cleaned     (Link Reconciler)                       *)
(*   silver_trending_cleaned       (Trending Normalizer)                   *)
(*                                                                         *)
(* Conventions.                                                            *)
(*  - A string whose characters matter (a numeric cell, a partition key,  *)
(*    a thumbnail URL) is a sequence of one-character strings.             *)
(*  - A nullable cell is a sequence of length <= 1: Null is <<>>, a        *)
(*    present value v is <<v>>.                                            *)
(*  - A data frame whose row order the engine fixes is a sequence of rows; *)
(*    a data frame whose row order the engine leaves open (after           *)
(*    dropDuplicates, after a join) is a bag of rows.                      *)
(***************************************************************************)
EXTENDS Integers, Sequences, FiniteSets, Bags, TLC

VARIABLES
    bronze_videoCategory_trending,  \* input of silver_videoCategory_cleaned
    bronze_linkVideos_trending,     \* input of silver_linkVideos_cleaned
    silver_youtube_trending_01,     \* input of both trending consumers
    silver_youtube_trending_02,     \* input of silver_trending_cleaned
    partition_key,                  \* context.asset_partition_key_for_output()
    pc,                             \* "ready" before the asset ran, "done" after
    result,                         \* what the asset returned or raised
    deduped                         \* results of repeated dropDuplicates

vars == << bronze_videoCategory_trending, bronze_linkVideos_trending,
           silver_youtube_trending_01, silver_youtube_trending_02,
           partition_key, pc, result, deduped >>

(***************************************************************************)
(* Bounds of the model.                                                    *)
(***************************************************************************)
MaxCategoryRows == 2
MaxLinkRows == 2
MaxTrendingRows == 2
MaxSecondRows == 1
MaxPieces == 3

(***************************************************************************)
(* Nullable cells and generic helpers.                                     *)
(***************************************************************************)
Null == <<>>

Some(v) == <<v>>

IsNull(o) == o = <<>>

Val(o) == o[1]

SeqsUpTo(S, n) == UNION { [1..k -> S] : k \in 0..n }

Range(s) == { s[i] : i \in DOMAIN s }

SeqToBag(s) ==
    [ r \in Range(s) |-> Cardinality({ i \in DOMAIN s : s[i] = r }) ]

\* The cells of one column of a data frame, row by row.
Column(df, c) == [ i \in DOMAIN df |-> df[i][c] ]

(***************************************************************************)
(* Column.cast(IntegerType()) on a string column (Spark, non-ANSI): an     *)
(* optional sign followed by decimal digits yields the integer when it     *)
(* fits 32 bits; anything else, and a null, yields null.  The characters   *)
(* of the model's cells are digits, "-" and "x".                           *)
(***************************************************************************)
MaxInt32 == 2147483647

DigitChars == {"0", "1", "2", "3", "4", "7", "8"}

DigitVal(c) ==
    CASE c = "0" -> 0 [] c = "1" -> 1 [] c = "2" -> 2 [] c = "3" -> 3
      [] c = "4" -> 4 [] c = "7" -> 7 [] c = "8" -> 8

AllDigits(s) == s # <<>> /\ \A i \in DOMAIN s : s[i] \in DigitChars

\* Magnitude of a digit string, or -1 once it exceeds `limit`.
RECURSIVE Magnitude(_, _, _)
Magnitude(s, acc, limit) ==
    IF s = <<>> THEN acc
    ELSE LET d == DigitVal(Head(s)) IN
         IF acc > (limit - d) \div 10 THEN -1
         ELSE Magnitude(Tail(s), acc * 10 + d, limit)

CastIntegerType(cell) ==
    IF IsNull(cell) THEN Null
    ELSE LET s == Val(cell) IN
         IF s # <<>> /\ Head(s) = "-"
         THEN IF AllDigits(Tail(s)) /\ Magnitude(Tail(s), 0, MaxInt32) >= 0
              THEN Some(0 - Magnitude(Tail(s), 0, MaxInt32))
              ELSE Null
         ELSE IF AllDigits(s) /\ Magnitude(s, 0, MaxInt32) >= 0
              THEN Some(Magnitude(s, 0, MaxInt32))
              ELSE Null

(***************************************************************************)
(* spark.createDataFrame(pandas_df): the rows are taken over as they are.  *)
(* With no rows the schema cannot be inferred unless the session converts  *)
(* through Arrow, a setting of the spark_io_manager resource; `arrow` is   *)
(* that setting.                                                           *)
(***************************************************************************)
createDataFrameFails(df, arrow) == df = <<>> /\ ~arrow

Failed(why) == [status |-> "failed", error |-> why]

Returned(value, records) ==
    [status |-> "ok", value |-> value, records |-> records]

NotRun == [status |-> "none"]

(***************************************************************************)
(* silver_videoCategory_cleaned                                            *)
(***************************************************************************)
CategoryIdCells ==
    { Null, Some(<<"1", "0">>), Some(<<"2">>), Some(<<"x">>), Some(<<"-", "3">>),
      Some(<<>>), Some(<<"2", "1", "4", "7", "4", "8", "3", "7", "4", "8">>) }

CategoryTitles == {"Music", "Film"}

CategoryRows ==
    { [categoryId |-> c, title |-> t] : c \in CategoryIdCells, t \in CategoryTitles }

\* spark_df.withColumn("categoryId", spark_df["categoryId"].cast(IntegerType()))
CategoryCastRow(r) == [r EXCEPT !.categoryId = CastIntegerType(r.categoryId)]

CategoryCast(df) == [ i \in DOMAIN df |-> CategoryCastRow(df[i]) ]

\* Ascending order of a nullable integer key, nulls first (Spark's default).
KeyLeq(a, b) == IsNull(a) \/ (~IsNull(b) /\ Val(a) <= Val(b))

\* The variant that orders descending.
KeyGeq(a, b) == KeyLeq(b, a)

OrderByDescending(df) ==
    IF df = <<>> THEN {<<>>}
    ELSE { s \in { [i \in DOMAIN df |-> df[p[i]]] : p \in Permutations(DOMAIN df) } :
             \A i, j \in DOMAIN s : i < j => KeyGeq(s[i].categoryId, s[j].categoryId) }

\* spark_df.orderBy(spark_df["categoryId"]): some arrangement of the rows
\* that is ascending in the key; the order of rows with equal keys is open.
OrderBy(df) ==
    IF df = <<>> THEN {<<>>}
    ELSE { s \in { [i \in DOMAIN df |-> df[p[i]]] : p \in Permutations(DOMAIN df) } :
             \A i, j \in DOMAIN s : i < j => KeyLeq(s[i].categoryId, s[j].categoryId) }

silver_videoCategory_cleaned ==
    /\ pc = "ready"
    /\ \E arrow \in BOOLEAN :
         IF createDataFrameFails(bronze_videoCategory_trending, arrow)
         THEN result' = Failed("createDataFrame")
         ELSE \E sorted \in OrderBy(CategoryCast(bronze_videoCategory_trending)) :
                result' = Returned(sorted, Len(sorted))
    /\ pc' = "done"
    /\ UNCHANGED << bronze_videoCategory_trending, bronze_linkVideos_trending,
                    silver_youtube_trending_01, silver_youtube_trending_02,
                    partition_key, deduped >>

InitCategory ==
    /\ bronze_videoCategory_trending \in SeqsUpTo(CategoryRows, MaxCategoryRows)
    /\ bronze_linkVideos_trending = <<>>
    /\ silver_youtube_trending_01 = <<>>
    /\ silver_youtube_trending_02 = <<>>
    /\ partition_key = Null
    /\ pc = "ready"
    /\ result = NotRun
    /\ deduped = <<>>

NextCategory == silver_videoCategory_cleaned

SpecCategory == InitCategory /\ [][NextCategory]_vars

\* C9: the Category Normalizer returns categoryId as integers (or null),
\* ordered non-decreasing by numeric value (nulls first), and its rows are
\* exactly the input rows after the cast, each as often as in the input;
\* "10","2" comes out as 2,10.
C9_CategorySortedAndPreserved ==
    (pc = "done" /\ result.status = "ok") =>
        LET out == result.value
            inp == bronze_videoCategory_trending
        IN  /\ \A i \in DOMAIN out :
                  IsNull(out[i].categoryId) \/ Val(out[i].categoryId) \in Int
            /\ \A i, j \in DOMAIN out :
                  (i < j /\ ~IsNull(out[i].categoryId) /\ ~IsNull(out[j].categoryId))
                      => Val(out[i].categoryId) <= Val(out[j].categoryId)
            /\ \A i, j \in DOMAIN out :
                  (i < j /\ IsNull(out[j].categoryId)) => IsNull(out[i].categoryId)
            /\ Len(out) = Len(inp)
            /\ SeqToBag(out) = SeqToBag(CategoryCast(inp))
            /\ (Column(inp, "categoryId") = << Some(<<"1", "0">>), Some(<<"2">>) >>)
                  => Column(out, "categoryId") = << Some(2), Some(10) >>

C9_Witness ==
    /\ pc = "done"
    /\ result.status = "ok"
    /\ Column(bronze_videoCategory_trending, "categoryId")
           = << Some(<<"1", "0">>), Some(<<"2">>) >>
    /\ Column(result.value, "categoryId") = << Some(2), Some(10) >>

(***************************************************************************)
(* Rows of the trending datasets.  trending_date is carried through        *)
(* format_date and to_timestamp only and is left out of the rows.          *)
(***************************************************************************)
TrendingRow(id, published, category, views, likes, dislikes, comments, thumb) ==
    [ video_id |-> id, publishedAt |-> published, categoryId |-> category,
      view_count |-> views, likes |-> likes, dislikes |-> dislikes,
      comment_count |-> comments, thumbnail_link |-> thumb ]

Aug2021 == Some([year |-> 2021, month |-> 8])

PlainThumb == Some(<<"h", "/", "x", ".", "p", "n", "g">>)

(***************************************************************************)
(* silver_linkVideos_cleaned                                               *)
(***************************************************************************)
VideoIds == { Null, Some("a"), Some("b") }

LinkValues == { Some("L1"), Some("L2") }

LinkRows == { [videoId |-> v, link_video |-> l] : v \in VideoIds, l \in LinkValues }

\* Trending rows of the reconciler's inputs: the id varies, and view_count
\* tells two rows of one id apart.
LinkTrendingRows ==
    { TrendingRow(v, Aug2021, Some(<<"1", "0">>), c, Some(<<"1">>), Some(<<"0">>),
                  Some(<<"2">>), PlainThumb) :
        v \in VideoIds, c \in { Some(<<"7">>), Some(<<"8">>) } }

\* The variant dropDuplicates() without a subset: whole rows are compared.
DropDuplicateRows(df) == { SetToBag(BagToSet(df)) }

\* DataFrame.dropDuplicates(["video_id"]): one row of each video_id (null is
\* one key); which of the rows of an id is kept, and the order of the rows
\* kept, are the engine's choice.  The result is a bag of rows.
dropDuplicates(df) ==
    LET rows == BagToSet(df)
        keys == { r.video_id : r \in rows }
    IN  { SetToBag({ f[k] : k \in keys }) :
            f \in { g \in [keys -> rows] : \A k \in keys : g[k].video_id = k } }

\* An enumeration of a bag, each row as often as the bag holds it.
RECURSIVE BagToSeq(_)
BagToSeq(b) ==
    IF BagToSet(b) = {} THEN <<>>
    ELSE LET r == CHOOSE x \in BagToSet(b) : TRUE
         IN  <<r>> \o BagToSeq(b (-) SetToBag({r}))

\* linkVideos["videoId"] == trending["video_id"]: null equals nothing.
JoinCondition(l, t) ==
    ~IsNull(l.videoId) /\ ~IsNull(t.video_id) /\ Val(l.videoId) = Val(t.video_id)

\* The variant that takes the id from whichever side has one.
SelectCoalesced(l, t) ==
    [ video_id   |-> IF t # Null THEN Val(t).video_id
                     ELSE IF l # Null THEN Val(l).videoId ELSE Null,
      link_video |-> IF l = Null THEN Null ELSE Val(l).link_video ]

\* .select(trending.video_id, linkVideos.link_video) on a joined row; a side
\* with no match contributes nulls.
Select(l, t) ==
    [ video_id   |-> IF t = Null THEN Null ELSE Val(t).video_id,
      link_video |-> IF l = Null THEN Null ELSE Val(l).link_video ]

\* The rows of the left side, each with every right row it matches, or alone.
RECURSIVE LeftPart(_, _)
LeftPart(left, right) ==
    IF left = <<>> THEN <<>>
    ELSE LET l == Head(left)
             matches == SelectSeq(right, LAMBDA t : JoinCondition(l, t))
         IN  (IF matches = <<>> THEN << Select(Some(l), Null) >>
              ELSE [ i \in DOMAIN matches |-> Select(Some(l), Some(matches[i])) ])
             \o LeftPart(Tail(left), right)

\* The rows of the right side no left row matches.
RightPart(left, right) ==
    LET alone == SelectSeq(right, LAMBDA t : \A i \in DOMAIN left : ~JoinCondition(left[i], t))
    IN  [ i \in DOMAIN alone |-> Select(Null, Some(alone[i])) ]

\* The variants how="inner" and how="left".
MatchedPart(left, right) ==
    SelectSeq(LeftPart(left, right), LAMBDA o : ~IsNull(o.video_id))

JoinInner(left, right) == SeqToBag(MatchedPart(left, right))

JoinLeft(left, right) == SeqToBag(LeftPart(left, right))

\* linkVideos.join(trending, <condition>, how="outer"): a full outer join.
JoinOuter(left, right) ==
    SeqToBag(LeftPart(left, right) \o RightPart(left, right))

silver_linkVideos_cleaned ==
    /\ pc = "ready"
    /\ \E arrow \in BOOLEAN :
         IF \/ createDataFrameFails(bronze_linkVideos_trending, arrow)
            \/ createDataFrameFails(silver_youtube_trending_01, arrow)
         THEN /\ result' = Failed("createDataFrame")
              /\ deduped' = deduped
         ELSE \E trending \in dropDuplicates(SeqToBag(silver_youtube_trending_01)) :
                LET spark_df == JoinOuter(bronze_linkVideos_trending, BagToSeq(trending))
                IN  /\ result' = Returned(spark_df, BagCardinality(spark_df))
                    /\ deduped' = << trending >>
    /\ pc' = "done"
    /\ UNCHANGED << bronze_videoCategory_trending, bronze_linkVideos_trending,
                    silver_youtube_trending_01, silver_youtube_trending_02,
                    partition_key >>

InitLink ==
    /\ bronze_videoCategory_trending = <<>>
    /\ bronze_linkVideos_trending \in SeqsUpTo(LinkRows, MaxLinkRows)
    /\ silver_youtube_trending_01 \in SeqsUpTo(LinkTrendingRows, MaxTrendingRows)
    /\ silver_youtube_trending_02 = <<>>
    /\ partition_key = Null
    /\ pc = "ready"
    /\ result = NotRun
    /\ deduped = <<>>

NextLink == silver_linkVideos_cleaned

SpecLink == InitLink /\ [][NextLink]_vars

(***************************************************************************)
(* Properties of the Link Reconciler, stated on its inputs and its output. *)
(***************************************************************************)
LinkDone == pc = "done" /\ result.status = "ok"

LinkIds == { bronze_linkVideos_trending[i].videoId : i \in DOMAIN bronze_linkVideos_trending }

TrendingIds == { silver_youtube_trending_01[i].video_id : i \in DOMAIN silver_youtube_trending_01 }

\* How many link-mapping rows carry the id.
LinkRowsOf(id) ==
    Cardinality({ i \in DOMAIN bronze_linkVideos_trending :
                    bronze_linkVideos_trending[i].videoId = id })

\* How many rows of a bag satisfy a condition.
CountRows(b, P(_)) ==
    LET S == { r \in BagToSet(b) : P(r) }
    IN  IF S = {} THEN 0 ELSE BagCardinality([ r \in S |-> CopiesIn(r, b) ])

NoNullIds == Null \notin LinkIds /\ Null \notin TrendingIds

LinkIdsDistinct == \A id \in LinkIds : LinkRowsOf(id) = 1

BothSidesHaveRows == bronze_linkVideos_trending # <<>> /\ silver_youtube_trending_01 # <<>>

\* An id of the trending side that no link-mapping row matches.
Unmatched(id) == IsNull(id) \/ id \notin LinkIds

\* C1 as claimed: the output has as many rows as there are distinct ids in
\* the union of the link-mapping ids and the trending ids (stated here for
\* inputs that both have rows and hold no null id).
C1_RowsEqualDistinctIds ==
    (LinkDone /\ BothSidesHaveRows /\ NoNullIds) =>
        BagCardinality(result.value) = Cardinality(LinkIds \cup TrendingIds)

\* C1 as amended: the output has one row per link-mapping row plus one row
\* per distinct trending id that no link-mapping row matches; that is the
\* number of distinct ids of the union when no videoId repeats in the
\* link-mapping dataset and no id is null.  The reported record count is
\* that number.
C1_RowsEqualLinkRowsPlusUnmatched ==
    LinkDone =>
        /\ BagCardinality(result.value)
             = Len(bronze_linkVideos_trending)
               + Cardinality({ id \in TrendingIds : Unmatched(id) })
        /\ (NoNullIds /\ LinkIdsDistinct)
             => BagCardinality(result.value) = Cardinality(LinkIds \cup TrendingIds)
        /\ result.records = BagCardinality(result.value)

C1_Witness ==
    /\ LinkDone
    /\ NoNullIds
    /\ LinkRowsOf(Some("a")) = 2
    /\ TrendingIds = { Some("a"), Some("b") }
    /\ BagCardinality(result.value) = 3

\* C2 as claimed: the output holds exactly one row per distinct trending
\* video_id and no other row, and no row has a null video_id (stated here
\* for inputs that both have rows, hold no null id and repeat no
\* link-mapping videoId).
C2_OneRowPerTrendingIdOnly ==
    (LinkDone /\ BothSidesHaveRows /\ NoNullIds /\ LinkIdsDistinct) =>
        /\ \A id \in TrendingIds :
             CountRows(result.value, LAMBDA o : o.video_id = id) = 1
        /\ \A o \in BagToSet(result.value) : o.video_id \in TrendingIds
        /\ BagCardinality(result.value) = Cardinality(TrendingIds)

\* C2 as amended: every distinct trending video_id has at least one output
\* row, exactly one when at most one link-mapping row carries it; every
\* output row with a non-null video_id carries a trending id; and every
\* link-mapping row whose videoId matches no trending id adds a row with a
\* null video_id.
C2_TrendingIdsCoveredLinkOnlyRowsNull ==
    LinkDone =>
        /\ \A id \in TrendingIds :
             /\ CountRows(result.value, LAMBDA o : o.video_id = id) >= 1
             /\ (~IsNull(id) /\ LinkRowsOf(id) <= 1)
                  => CountRows(result.value, LAMBDA o : o.video_id = id) = 1
             /\ (~IsNull(id) /\ LinkRowsOf(id) >= 1)
                  => CountRows(result.value, LAMBDA o : o.video_id = id) = LinkRowsOf(id)
        /\ \A o \in BagToSet(result.value) :
             ~IsNull(o.video_id) => o.video_id \in TrendingIds
        /\ CountRows(result.value, LAMBDA o : IsNull(o.video_id))
             = Cardinality({ i \in DOMAIN bronze_linkVideos_trending :
                   LET id == bronze_linkVideos_trending[i].videoId
                   IN  IsNull(id) \/ id \notin TrendingIds })
               + (IF Null \in TrendingIds THEN 1 ELSE 0)

C2_Witness ==
    /\ LinkDone
    /\ NoNullIds
    /\ LinkIds = { Some("a"), Some("b") }
    /\ TrendingIds = { Some("a") }
    /\ [video_id |-> Null, link_video |-> Some("L2")] \in BagToSet(result.value)
    /\ [video_id |-> Some("a"), link_video |-> Some("L1")] \in BagToSet(result.value)

\* C3: every output row has exactly the columns video_id and link_video; a
\* trending id that no link-mapping row carries has a row, and its
\* link_video is null; a trending id that link-mapping rows carry has, for
\* each of them, a row with that link_video, and no row with another; the
\* link-mapping [{a, L1}] with trending [a, b] gives [{a, L1}, {b, null}].
C3_LinkValues ==
    LinkDone =>
        /\ \A o \in BagToSet(result.value) : DOMAIN o = {"video_id", "link_video"}
        /\ \A id \in TrendingIds \ {Null} :
             IF id \notin LinkIds
             THEN /\ \E o \in BagToSet(result.value) : o.video_id = id
                  /\ \A o \in BagToSet(result.value) :
                       o.video_id = id => IsNull(o.link_video)
             ELSE /\ \A i \in DOMAIN bronze_linkVideos_trending :
                       bronze_linkVideos_trending[i].videoId = id
                         => [video_id |-> id,
                             link_video |-> bronze_linkVideos_trending[i].link_video]
                              \in BagToSet(result.value)
                  /\ \A o \in BagToSet(result.value) :
                       o.video_id = id
                         => \E i \in DOMAIN bronze_linkVideos_trending :
                              /\ bronze_linkVideos_trending[i].videoId = id
                              /\ bronze_linkVideos_trending[i].link_video = o.link_video
        /\ ( /\ bronze_linkVideos_trending
                  = << [videoId |-> Some("a"), link_video |-> Some("L1")] >>
             /\ Column(silver_youtube_trending_01, "video_id")
                  = << Some("a"), Some("b") >> )
             => result.value
                  = SetToBag({ [video_id |-> Some("a"), link_video |-> Some("L1")],
                               [video_id |-> Some("b"), link_video |-> Null] })

C3_Witness ==
    /\ LinkDone
    /\ bronze_linkVideos_trending = << [videoId |-> Some("a"), link_video |-> Some("L1")] >>
    /\ Column(silver_youtube_trending_01, "video_id") = << Some("a"), Some("b") >>
    /\ result.value = SetToBag({ [video_id |-> Some("a"), link_video |-> Some("L1")],
                                 [video_id |-> Some("b"), link_video |-> Null] })

(***************************************************************************)
(* dropDuplicates applied again to its own result.                         *)
(***************************************************************************)
trending_dropDuplicates ==
    /\ pc = "ready"
    /\ \E d \in dropDuplicates(SeqToBag(silver_youtube_trending_01)) :
         deduped' = << d >>
    /\ pc' = "once"
    /\ UNCHANGED << bronze_videoCategory_trending, bronze_linkVideos_trending,
                    silver_youtube_trending_01, silver_youtube_trending_02,
                    partition_key, result >>

trending_dropDuplicates_again ==
    /\ pc = "once"
    /\ \E d \in dropDuplicates(deduped[1]) :
         deduped' = Append(deduped, d)
    /\ pc' = "done"
    /\ UNCHANGED << bronze_videoCategory_trending, bronze_linkVideos_trending,
                    silver_youtube_trending_01, silver_youtube_trending_02,
                    partition_key, result >>

InitDedup ==
    /\ bronze_videoCategory_trending = <<>>
    /\ bronze_linkVideos_trending = <<>>
    /\ silver_youtube_trending_01 \in SeqsUpTo(LinkTrendingRows, MaxTrendingRows + 1)
    /\ silver_youtube_trending_02 = <<>>
    /\ partition_key = Null
    /\ pc = "ready"
    /\ result = NotRun
    /\ deduped = <<>>

NextDedup == trending_dropDuplicates \/ trending_dropDuplicates_again

SpecDedup == InitDedup /\ [][NextDedup]_vars

\* C10: deduplicating the deduplicated trending dataset by video_id again
\* gives the same dataset, whichever row of an id the first pass kept; the
\* deduplicated dataset holds every id of the input once, on a row of the
\* input, and no two of its rows share a video_id.
C10_DedupIdempotent ==
    /\ pc = "done" => deduped[2] = deduped[1]
    /\ pc \in {"once", "done"} =>
         LET d == deduped[1] IN
         /\ \A r \in BagToSet(d) : CopiesIn(r, d) = 1
         /\ \A r, q \in BagToSet(d) : r.video_id = q.video_id => r = q
         /\ BagToSet(d) \subseteq Range(silver_youtube_trending_01)
         /\ { r.video_id : r \in BagToSet(d) } = TrendingIds

C10_Witness ==
    /\ pc = "done"
    /\ Len(silver_youtube_trending_01) >= 2
    /\ \E i, j \in DOMAIN silver_youtube_trending_01 :
         /\ i # j
         /\ silver_youtube_trending_01[i] # silver_youtube_trending_01[j]
         /\ silver_youtube_trending_01[i].video_id = silver_youtube_trending_01[j].video_id
    /\ BagCardinality(deduped[1]) < Len(silver_youtube_trending_01)
    /\ deduped[2] = deduped[1]

(***************************************************************************)
(* silver_trending_cleaned                                                 *)
(***************************************************************************)
\* The default-resolution token and what replaces it.
DefaultJpg == <<"d", "e", "f", "a", "u", "l", "t", ".", "j", "p", "g">>

MaxRes == <<"m", "a", "x", "r", "e", "s">>

MaxResDefaultJpg == MaxRes \o DefaultJpg

StartsWith(s, t) == Len(s) >= Len(t) /\ SubSeq(s, 1, Len(t)) = t

\* Whether t occurs in s.
Contains(s, t) ==
    \E i \in 1..(Len(s) + 1) : i + Len(t) - 1 <= Len(s) /\ SubSeq(s, i, i + Len(t) - 1) = t

\* s with every occurrence of DefaultJpg, left to right, replaced.
RECURSIVE ReplaceAll(_)
ReplaceAll(s) ==
    IF s = <<>> THEN <<>>
    ELSE IF StartsWith(s, DefaultJpg)
         THEN MaxResDefaultJpg \o ReplaceAll(SubSeq(s, Len(DefaultJpg) + 1, Len(s)))
         ELSE <<Head(s)>> \o ReplaceAll(Tail(s))

\* func_process.replace_str, applied to a cell through the udf link_convert.
replace_str(cell) == IF IsNull(cell) THEN Null ELSE Some(ReplaceAll(Val(cell)))

\* The variants without the thumbnail rewrite, and with likes and dislikes
\* cast from each other's column.
TrendingCleanRowNoRewrite(r) ==
    [r EXCEPT !.categoryId    = CastIntegerType(r.categoryId),
              !.view_count    = CastIntegerType(r.view_count),
              !.likes         = CastIntegerType(r.likes),
              !.dislikes      = CastIntegerType(r.dislikes),
              !.comment_count = CastIntegerType(r.comment_count)]

TrendingCleanRowSwapped(r) ==
    [r EXCEPT !.categoryId    = CastIntegerType(r.categoryId),
              !.view_count    = CastIntegerType(r.view_count),
              !.likes         = CastIntegerType(r.dislikes),
              !.dislikes      = CastIntegerType(r.likes),
              !.comment_count = CastIntegerType(r.comment_count),
              !.thumbnail_link = replace_str(r.thumbnail_link)]

\* Lines 195-212 on one row: the five integer casts and the thumbnail
\* rewrite; to_timestamp leaves a publishedAt that is a timestamp as it is.
TrendingCleanRow(r) ==
    [r EXCEPT !.categoryId    = CastIntegerType(r.categoryId),
              !.view_count    = CastIntegerType(r.view_count),
              !.likes         = CastIntegerType(r.likes),
              !.dislikes      = CastIntegerType(r.dislikes),
              !.comment_count = CastIntegerType(r.comment_count),
              !.thumbnail_link = replace_str(r.thumbnail_link)]

\* Python's s[lo:hi].
PySlice(s, lo, hi) ==
    LET last == IF hi < Len(s) THEN hi ELSE Len(s)
    IN  IF lo + 1 > last THEN <<>> ELSE SubSeq(s, lo + 1, last)

\* Python's int(s) on a string of digits, "-", "/" and "x": an optional
\* sign and one or more digits give the integer; Null stands for ValueError.
PyInt(s) ==
    IF s # <<>> /\ Head(s) = "-"
    THEN IF AllDigits(Tail(s)) THEN Some(0 - Magnitude(Tail(s), 0, MaxInt32)) ELSE Null
    ELSE IF AllDigits(s) THEN Some(Magnitude(s, 0, MaxInt32)) ELSE Null

\* The variant that compares the month only.
FilterByMonthOnly(df, y, m) ==
    SelectSeq(df, LAMBDA r : ~IsNull(r.publishedAt) /\ Val(r.publishedAt).month = m)

\* trending.filter((year == y) & (month == m)): a null publishedAt is dropped.
FilterByWindow(df, y, m) ==
    SelectSeq(df, LAMBDA r : /\ ~IsNull(r.publishedAt)
                             /\ Val(r.publishedAt).year = y
                             /\ Val(r.publishedAt).month = m)

TrendingClean(df) == [ i \in DOMAIN df |-> TrendingCleanRow(df[i]) ]

silver_trending_cleaned ==
    /\ pc = "ready"
    /\ \E arrow \in BOOLEAN :
         LET trending == silver_youtube_trending_01 \o silver_youtube_trending_02 IN
         IF IsNull(partition_key)
         THEN result' = Failed("partition key")
         ELSE LET year  == PyInt(PySlice(Val(partition_key), 0, 4))
                  month == PyInt(PySlice(Val(partition_key), 5, 7))
              IN  IF IsNull(year) \/ IsNull(month)
                  THEN result' = Failed("ValueError")
                  ELSE LET data_by_publishedAt ==
                               FilterByWindow(trending, Val(year), Val(month))
                       IN  IF createDataFrameFails(data_by_publishedAt, arrow)
                           THEN result' = Failed("createDataFrame")
                           ELSE LET spark_df == TrendingClean(data_by_publishedAt)
                                IN  result' = Returned(spark_df, Len(spark_df))
    /\ pc' = "done"
    /\ UNCHANGED << bronze_videoCategory_trending, bronze_linkVideos_trending,
                    silver_youtube_trending_01, silver_youtube_trending_02,
                    partition_key, deduped >>

NextTrending == silver_trending_cleaned

(***************************************************************************)
(* Inputs of the time-window filter: partition keys, well-formed and not,  *)
(* and rows published inside and outside the windows.                      *)
(***************************************************************************)
Key202108 == Some(<<"2", "0", "2", "1", "-", "0", "8">>)

PartitionKeys ==
    { Null,
      Key202108,
      Some(<<"2", "0", "2", "1", "-", "0", "7">>),
      Some(<<"2", "0", "2", "1", "/", "0", "8">>),
      Some(<<"2", "0", "2", "1", "-", "1", "3">>),
      Some(<<"2", "0", "2", "1", "0", "8">>),
      Some(<<"2", "0", "2", "1", "-", "8">>),
      Some(<<"2", "1", "-", "0", "8">>),
      Some(<<"2", "0", "2", "1", "-", "x", "x">>),
      Some(<<"2", "0", "2", "1", "-", "-", "8">>),
      Some(<<"2", "0", "2", "1", "-", "0", "8", "-", "0", "1">>),
      Some(<<>>) }

\* YYYY-MM: four digits, a hyphen, two digits that name a month.
WellFormedKey(k) ==
    /\ ~IsNull(k)
    /\ Len(Val(k)) = 7
    /\ AllDigits(SubSeq(Val(k), 1, 4))
    /\ Val(k)[5] = "-"
    /\ AllDigits(SubSeq(Val(k), 6, 7))
    /\ Magnitude(SubSeq(Val(k), 6, 7), 0, MaxInt32) \in 1..12

PublishedAtValues ==
    { Null, Aug2021, Some([year |-> 2021, month |-> 7]), Some([year |-> 2020, month |-> 8]) }

WindowRow(id, published) ==
    TrendingRow(id, published, Some(<<"1", "0">>), Some(<<"7">>), Some(<<"1">>),
                Some(<<"0">>), Some(<<"2">>), PlainThumb)

WindowRows ==
    { WindowRow(Some("a"), p) : p \in PublishedAtValues } \cup { WindowRow(Some("b"), Aug2021) }

InitWindow ==
    /\ bronze_videoCategory_trending = <<>>
    /\ bronze_linkVideos_trending = <<>>
    /\ silver_youtube_trending_01 \in SeqsUpTo(WindowRows, MaxTrendingRows)
    /\ silver_youtube_trending_02 \in SeqsUpTo(WindowRows, MaxSecondRows)
    /\ partition_key \in PartitionKeys
    /\ pc = "ready"
    /\ result = NotRun
    /\ deduped = <<>>

SpecWindow == InitWindow /\ [][NextTrending]_vars

TrendingDone == pc = "done" /\ result.status = "ok"

TrendingConcat == silver_youtube_trending_01 \o silver_youtube_trending_02

KeyYear(k) == Magnitude(SubSeq(Val(k), 1, 4), 0, MaxInt32)

KeyMonth(k) == Magnitude(SubSeq(Val(k), 6, 7), 0, MaxInt32)

\* The rows of the concatenation published in the month the key names.
RowsInWindow(k) ==
    SelectSeq(TrendingConcat,
              LAMBDA r : /\ r.publishedAt # Null
                         /\ r.publishedAt[1].year = KeyYear(k)
                         /\ r.publishedAt[1].month = KeyMonth(k))

IdsAndDates(df) == [ i \in DOMAIN df |-> << df[i].video_id, df[i].publishedAt >> ]

\* C7: under a well-formed key the output rows are, in order and with
\* repetitions, the rows of the concatenation of the two inputs published
\* in the key's year and month; the stage fails only when there is no such
\* row; under "2021-08" every output row is of year 2021, month 8.
C7_WindowFilterExact ==
    (pc = "done" /\ WellFormedKey(partition_key)) =>
        /\ result.status = "ok" =>
             /\ IdsAndDates(result.value) = IdsAndDates(RowsInWindow(partition_key))
             /\ result.records = Len(RowsInWindow(partition_key))
        /\ result.status = "failed" => RowsInWindow(partition_key) = <<>>
        /\ (result.status = "ok" /\ partition_key = Key202108) =>
             \A i \in DOMAIN result.value :
                 result.value[i].publishedAt = Some([year |-> 2021, month |-> 8])

C7_Witness ==
    /\ TrendingDone
    /\ partition_key = Key202108
    /\ Len(silver_youtube_trending_01) = 2
    /\ Len(silver_youtube_trending_02) = 1
    /\ silver_youtube_trending_01[1] = silver_youtube_trending_02[1]
    /\ silver_youtube_trending_01[2].publishedAt = Some([year |-> 2020, month |-> 8])
    /\ Len(result.value) = 2

\* C5 as claimed, in the form every reading of it implies: under a
\* partition key that is missing or is not a well-formed YYYY-MM the stage
\* returns no rows.
C5_MalformedKeyReturnsNothing ==
    (pc = "done" /\ ~WellFormedKey(partition_key)) =>
        (result.status = "failed" \/ result.value = <<>>)

\* C6 as claimed, for the Category Normalizer on an input that has rows: a
\* returned dataset holds at least one row with a valid categoryId.
C6_NoResultWithoutUsableRows ==
    (pc = "done" /\ result.status = "ok" /\ bronze_videoCategory_trending # <<>>) =>
        \E i \in DOMAIN result.value : ~IsNull(result.value[i].categoryId)

(***************************************************************************)
(* Inputs of the integer casts: every combination of a numeric, a          *)
(* non-numeric, an out-of-range and a null cell over the five columns.     *)
(***************************************************************************)
Twelve == Some(<<"1", "2">>)

NumericCells ==
    { Null, Twelve, Some(<<"x">>),
      Some(<<"2", "1", "4", "7", "4", "8", "3", "7", "4", "8">>) }

CastRows ==
    { TrendingRow(Some("a"), Aug2021, c, v, l, d, m, PlainThumb) :
        c \in NumericCells, v \in NumericCells, l \in NumericCells,
        d \in NumericCells, m \in NumericCells }

InitCast ==
    /\ bronze_videoCategory_trending = <<>>
    /\ bronze_linkVideos_trending = <<>>
    /\ silver_youtube_trending_01 \in { <<r>> : r \in CastRows }
    /\ silver_youtube_trending_02 \in SeqsUpTo({ WindowRow(Some("b"), Aug2021) }, MaxSecondRows)
    /\ partition_key = Key202108
    /\ pc = "ready"
    /\ result = NotRun
    /\ deduped = <<>>

SpecCast == InitCast /\ [][NextTrending]_vars

\* What the cast makes of each cell of NumericCells and of WindowRow.
ExpectedInteger(cell) ==
    CASE cell = Twelve -> Some(12)
      [] cell = Some(<<"1", "0">>) -> Some(10)
      [] cell = Some(<<"7">>) -> Some(7)
      [] cell = Some(<<"1">>) -> Some(1)
      [] cell = Some(<<"0">>) -> Some(0)
      [] cell = Some(<<"2">>) -> Some(2)
      [] OTHER -> Null

NumericColumns == {"categoryId", "view_count", "likes", "dislikes", "comment_count"}

\* C8: the stage does not abort on a non-numeric cell; every input row is
\* in the output, and each of its five numeric cells is the integer its own
\* input denotes, or null when the input is null, non-numeric or out of
\* range, whatever the other cells of the row hold.
C8_PerCellCoercion ==
    pc = "done" =>
        /\ result.status = "ok"
        /\ Len(result.value) = Len(TrendingConcat)
        /\ \A i \in DOMAIN result.value : \A c \in NumericColumns :
             /\ result.value[i][c] = ExpectedInteger(TrendingConcat[i][c])
             /\ IsNull(result.value[i][c]) \/ Val(result.value[i][c]) \in Int

C8_Witness ==
    /\ TrendingDone
    /\ silver_youtube_trending_01[1].likes = Some(<<"x">>)
    /\ silver_youtube_trending_01[1].dislikes = Twelve
    /\ result.value[1].likes = Null
    /\ result.value[1].dislikes = Some(12)
    /\ result.value[1].view_count = Some(12)

(***************************************************************************)
(* Inputs of the thumbnail rewrite: URLs made of up to MaxPieces pieces.   *)
(***************************************************************************)
Pieces == { <<"h", "/">>, DefaultJpg, MaxRes, <<"h", "q">> }

RECURSIVE Flatten(_)
Flatten(ps) == IF ps = <<>> THEN <<>> ELSE Head(ps) \o Flatten(Tail(ps))

Thumbnails == { Null } \cup { Some(Flatten(ps)) : ps \in SeqsUpTo(Pieces, MaxPieces) }

ThumbRow(thumb) ==
    TrendingRow(Some("a"), Aug2021, Some(<<"1", "0">>), Some(<<"7">>), Some(<<"1">>),
                Some(<<"0">>), Some(<<"2">>), thumb)

InitThumbnail ==
    /\ bronze_videoCategory_trending = <<>>
    /\ bronze_linkVideos_trending = <<>>
    /\ silver_youtube_trending_01 \in { << ThumbRow(t) >> : t \in Thumbnails }
    /\ silver_youtube_trending_02 \in SeqsUpTo({ WindowRow(Some("b"), Aug2021) }, MaxSecondRows)
    /\ partition_key = Key202108
    /\ pc = "ready"
    /\ result = NotRun
    /\ deduped = <<>>

SpecThumbnail == InitThumbnail /\ [][NextTrending]_vars

HasDefaultJpg(cell) == cell # Null /\ Contains(cell[1], DefaultJpg)

\* Every occurrence of DefaultJpg in s directly follows MaxRes.
EveryDefaultJpgIsMaxRes(s) ==
    \A i \in 1..Len(s) :
        (i + Len(DefaultJpg) - 1 <= Len(s) /\ SubSeq(s, i, i + Len(DefaultJpg) - 1) = DefaultJpg)
            => (i > Len(MaxRes) /\ SubSeq(s, i - Len(MaxRes), i - 1) = MaxRes)

\* C4 as claimed: a thumbnail_link that was non-null and held "default.jpg"
\* no longer holds it as a substring in the output.
C4_TokenGone ==
    TrendingDone =>
        \A i \in DOMAIN result.value :
            HasDefaultJpg(TrendingConcat[i].thumbnail_link)
                => ~HasDefaultJpg(result.value[i].thumbnail_link)

\* C4 as amended: in the output of a thumbnail_link that was non-null and
\* held "default.jpg", every "default.jpg" is the tail of a
\* "maxresdefault.jpg" (so the token is still a substring), and there are
\* as many as the input held; a link without the token is unchanged and a
\* null stays null; "h/default.jpg" becomes "h/maxresdefault.jpg".
C4_TokenRewritten ==
    TrendingDone =>
        \A i \in DOMAIN result.value :
            LET old == TrendingConcat[i].thumbnail_link
                new == result.value[i].thumbnail_link
            IN  /\ old = Null => new = Null
                /\ (old # Null /\ ~HasDefaultJpg(old)) => new = old
                /\ HasDefaultJpg(old) =>
                     /\ new # Null
                     /\ EveryDefaultJpgIsMaxRes(new[1])
                     /\ HasDefaultJpg(new)
                     /\ Len(new[1]) - Len(old[1])
                          = Len(MaxRes) * Cardinality({ k \in 1..Len(old[1]) :
                                StartsWith(SubSeq(old[1], k, Len(old[1])), DefaultJpg) })
                /\ old = Some(<<"h", "/">> \o DefaultJpg)
                     => new = Some(<<"h", "/">> \o MaxResDefaultJpg)

C4_Witness ==
    /\ TrendingDone
    /\ silver_youtube_trending_01[1].thumbnail_link = Some(<<"h", "/">> \o DefaultJpg)
    /\ result.value[1].thumbnail_link = Some(<<"h", "/">> \o MaxResDefaultJpg)

====
